---- MODULE Spec2Model ----
(***************************************************************************)
(* marvel-by-year: the cache-through fetch layer (MarvelApi, src/lib/api.ts *)
(* lines 14-110) over the Redis record store, and the filter stage of the   *)
(* year page's view pipeline (lines 240-284).                               *)
(***************************************************************************)
EXTENDS Integers, Sequences, FiniteSets, TLC

(***************************************************************************)
(* Bounds of the model.                                                     *)
(***************************************************************************)
NumProcs == 2      \* concurrent callers of one MarvelApi / one store
MaxCalls == 2      \* invocations started in one behaviour
NumYears == 2
MaxPage == 1       \* page indices 0..MaxPage
MaxTotal == 1      \* data.total of an upstream answer, 0..MaxTotal
NumImageIds == 1   \* comic ids a caller may know to have images

(***************************************************************************)
(* Program constants.                                                       *)
(***************************************************************************)
MAX_LIMIT == 100
HTTP_OK == 200
COMICS_ENDPOINT == "https://gateway.marvel.com/v1/public/comics"

Procs == 1..NumProcs
Years == {2000 + i : i \in 1..NumYears}
PageIdx == 0..MaxPage
Totals == 0..MaxTotal
FailCodes == {409}

\* ComicDataWrapper: the decoded upstream envelope. An answer with a
\* non-success code carries no data object.
SuccessWrappers == {[code |-> HTTP_OK, data |-> [total |-> t]] : t \in Totals}
FailureWrappers == {[code |-> c] : c \in FailCodes}
ComicDataWrapper == SuccessWrappers \cup FailureWrappers

\* A value of an optional: the empty set is undefined, {v} is the value v.
Undefined == {}
Some(v) == {v}
The(o) == CHOOSE v \in o : TRUE

\* Record<number, ComicDataWrapper>: the caller's lookup of known pages, read
\* from the store, which holds success answers only.
PartialMaps(D, R) == UNION {[S -> R] : S \in SUBSET D}
CacheLookups == PartialMaps(PageIdx, SuccessWrappers)

\* Set<string>: the comicIdsWithImages a caller passes.
ComicIdSets == SUBSET {<<"comic", i>> : i \in 1..NumImageIds}

\* JavaScript truthiness of an optional number (undefined, 0 and NaN are falsy).
TruthyNumber(o) == o # Undefined /\ The(o) # 0
\* Mutant: the test written as cache[page] === true, which no page object passes.
TruthyEntryStrict(cache, page) == FALSE
\* JavaScript truthiness of cache[page]: an object is truthy, a missing key is not.
TruthyEntry(cache, page) == page \in DOMAIN cache

VARIABLES
    redisPages,     \* store: (year, page) -> what addComics was given for it
    redisTotals,    \* store: year -> value under the key year:<year>:total
    pc,             \* each caller's position in its invocation
    args,           \* the arguments of each caller's invocation
    val,            \* getTotalComics' local val
    parsedResult,   \* the local parsedResult, once result.json() has resolved
    sent,           \* the upstream requests this invocation has issued
    ret,            \* how the invocation ended
    ncalls          \* invocations started so far

VARIABLES
    random          \* the last getRandomComics call: its arguments, the store's sample, its result

VARIABLES
    comics,             \* response.comics of the year page
    selectedSeries,     \* $selectedSeries
    selectedCreators,   \* $selectedCreators
    selectedEvents,     \* $selectedEvents
    month,              \* position of the chosen month in months (0 is 'all')
    filteredComics,     \* the reactive filteredComics
    searchText,         \* the text the records are matched against
    sortBy,             \* the chosen SortOption
    sortDescending,     \* the Descending checkbox
    sortedComics,       \* the reactive sortedComics
    orderedComics,      \* the reactive orderedComics, what the page lists
    inputValue,         \* the value of the search field, e.target.value
    timer,              \* the id held by the variable timer
    pending,            \* the ids of the timeouts scheduled and neither run nor cleared
    ntimers             \* timeouts scheduled so far

fetchVars == <<redisPages, redisTotals, pc, args, val, parsedResult, sent, ret, ncalls>>
randomVars == <<random>>
searchVars == <<inputValue, timer, pending, ntimers>>
viewVars == <<comics, selectedSeries, selectedCreators, selectedEvents, month, filteredComics,
              searchText, sortBy, sortDescending, sortedComics, orderedComics, searchVars>>
vars == <<fetchVars, randomVars, viewVars>>

NoArgs == [op |-> "none"]
NoWrapper == [code |-> 0]
Pending == [kind |-> "pending"]
Thrown(at) == [kind |-> "error", at |-> at]
ReturnedPage(w) == [kind |-> "page", page |-> w]
ReturnedTotal(n) == [kind |-> "total", total |-> n]

\* Mutant: the limit and the offset written to each other's parameter.
getComicsSearchParamsSwapped(year, offset, limit) ==
    [ formatType |-> "comic",
      noVariants |-> "true",
      dateRange |-> <<year, 1, 1, year, 12, 31>>,
      hasDigitalIssue |-> "true",
      limit |-> offset,
      offset |-> limit,
      orderBy |-> "modified" ]

\* Lines 97-110; the date range is kept as its six numbers.
getComicsSearchParams(year, offset, limit) ==
    [ formatType |-> "comic",
      noVariants |-> "true",
      dateRange |-> <<year, 1, 1, year, 12, 31>>,
      hasDigitalIssue |-> "true",
      limit |-> limit,
      offset |-> offset,
      orderBy |-> "modified" ]

\* Lines 81-88: the parameters with the signing ones, whose values (the
\* public key, the time and the digest over them) stay symbolic.
paramsWithKey(params) ==
    params @@ [apikey |-> "PUBLIC_KEY", hash |-> "md5(ts + PRIVATE_KEY + PUBLIC_KEY)",
               ts |-> "ts"]

\* callMarvelApi: one fetch of the endpoint with the given parameters; earlier
\* is what this invocation has sent before.
callMarvelApi(p, earlier, urlString, params) ==
    sent' = [sent EXCEPT ![p] =
                Append(earlier, [url |-> urlString, search |-> paramsWithKey(params)])]

\* Mutant: the status test of line 45 left out.
pageIsSuccessAlways(parsed) == TRUE
\* parsedResult.code === 200 (line 45).
pageIsSuccess(parsed) == parsed.code = HTTP_OK

\* parsedResult.code === 200 (line 63).
totalIsSuccess(parsed) == parsed.code = HTTP_OK

\* RedisClient.get(key, parseInt) for the key year:<year>:total.
redisGet(year) ==
    IF year \in DOMAIN redisTotals THEN Some(redisTotals[year]) ELSE Undefined

\* RedisClient.set(key, total) for the key year:<year>:total.
redisSet(year, total) ==
    redisTotals' = [y \in DOMAIN redisTotals \cup {year} |->
                       IF y = year THEN total ELSE redisTotals[y]]

\* RedisClient.addComics(year, page, value, comicIdsWithImages): the page
\* replaces what the store held for (year, page); the ids are kept with it
\* as the input of the store's image bookkeeping.
redisAddComics(year, page, value, comicIdsWithImages) ==
    redisPages' = [k \in DOMAIN redisPages \cup {<<year, page>>} |->
                       IF k = <<year, page>>
                       THEN [value |-> value, comicIdsWithImages |-> comicIdsWithImages]
                       ELSE redisPages[k]]

InitFetch ==
    /\ redisPages = <<>>
    /\ redisTotals = <<>>
    /\ pc = [p \in Procs |-> "idle"]
    /\ args = [p \in Procs |-> NoArgs]
    /\ val = [p \in Procs |-> Undefined]
    /\ parsedResult = [p \in Procs |-> NoWrapper]
    /\ sent = [p \in Procs |-> <<>>]
    /\ ret = [p \in Procs |-> Pending]
    /\ ncalls = 0

CanStart(p) == pc[p] \in {"idle", "done"} /\ ncalls < MaxCalls

Begin(p, a) ==
    /\ args' = [args EXCEPT ![p] = a]
    /\ val' = [val EXCEPT ![p] = Undefined]
    /\ parsedResult' = [parsedResult EXCEPT ![p] = NoWrapper]
    /\ ncalls' = ncalls + 1

Finish(p, r) ==
    /\ pc' = [pc EXCEPT ![p] = "done"]
    /\ ret' = [ret EXCEPT ![p] = r]

(***************************************************************************)
(* getComics(year, page, cache, comicIdsWithImages)                         *)
(***************************************************************************)
\* Mutant: a non-success code raised as an error instead of returned.
getComicsReturnThrowing(parsed) ==
    IF parsed.code = HTTP_OK THEN ReturnedPage(parsed) ELSE Thrown("status")

\* return parsedResult (line 50), whatever its code.
getComicsReturn(parsed) == ReturnedPage(parsed)

\* Mutant: year and page passed to addComics in the wrong order.
addComicsCallSwapped(p) ==
    redisAddComics(args[p].page, args[p].year, parsedResult[p], args[p].comicIdsWithImages)

\* this.redis.addComics(year, page, parsedResult, ...) (line 46).
addComicsCall(p) ==
    redisAddComics(args[p].year, args[p].page, parsedResult[p], args[p].comicIdsWithImages)

\* Lines 28-39: the lookup in the caller's cache; a miss issues the request.
getComics(p, year, page, cache, comicIdsWithImages) ==
    /\ CanStart(p)
    /\ Begin(p, [op |-> "getComics", year |-> year, page |-> page, cache |-> cache,
                 comicIdsWithImages |-> comicIdsWithImages])
    /\ IF TruthyEntry(cache, page)
       THEN /\ Finish(p, ReturnedPage(cache[page]))
            /\ sent' = [sent EXCEPT ![p] = <<>>]
       ELSE /\ pc' = [pc EXCEPT ![p] = "gc_fetch"]
            /\ ret' = [ret EXCEPT ![p] = Pending]
            /\ callMarvelApi(p, <<>>, COMICS_ENDPOINT,
                             getComicsSearchParams(year, page * MAX_LIMIT, MAX_LIMIT))
    /\ UNCHANGED <<redisPages, redisTotals>>
    /\ UNCHANGED <<randomVars, viewVars>>

\* Line 36: the awaited fetch resolves with a Response.
gcFetchResolves(p) ==
    /\ pc[p] = "gc_fetch"
    /\ pc' = [pc EXCEPT ![p] = "gc_json"]
    /\ UNCHANGED <<redisPages, redisTotals, args, val, parsedResult, sent, ret, ncalls>>
    /\ UNCHANGED <<randomVars, viewVars>>

\* Mutant: a rejected fetch is retried inside getComics.
gcFetchRetries(p) ==
    /\ pc[p] = "gc_fetch"
    /\ Len(sent[p]) < 3
    /\ callMarvelApi(p, sent[p], COMICS_ENDPOINT,
                     getComicsSearchParams(args[p].year, args[p].page * MAX_LIMIT, MAX_LIMIT))
    /\ UNCHANGED <<redisPages, redisTotals, pc, args, val, parsedResult, ret, ncalls>>
    /\ UNCHANGED <<randomVars, viewVars>>

\* Line 36: the awaited fetch rejects (network failure); getComics rejects.
gcFetchRejects(p) ==
    /\ pc[p] = "gc_fetch"
    /\ Finish(p, Thrown("fetch"))
    /\ UNCHANGED <<redisPages, redisTotals, args, val, parsedResult, sent, ncalls>>
    /\ UNCHANGED <<randomVars, viewVars>>

\* Lines 44-50: result.json() resolves with the decoded envelope.
gcJsonResolves(p, w) ==
    /\ pc[p] = "gc_json"
    /\ parsedResult' = [parsedResult EXCEPT ![p] = w]
    /\ IF pageIsSuccess(w)
       THEN /\ pc' = [pc EXCEPT ![p] = "gc_add"]
            /\ UNCHANGED ret
       ELSE Finish(p, getComicsReturn(w))
    /\ UNCHANGED <<redisPages, redisTotals, args, val, sent, ncalls>>
    /\ UNCHANGED <<randomVars, viewVars>>

\* Line 44: result.json() rejects (the body does not decode); getComics rejects.
gcJsonRejects(p) ==
    /\ pc[p] = "gc_json"
    /\ Finish(p, Thrown("json"))
    /\ UNCHANGED <<redisPages, redisTotals, args, val, parsedResult, sent, ncalls>>
    /\ UNCHANGED <<randomVars, viewVars>>

\* Lines 46-50: the awaited addComics resolves, the page is in the store.
gcAddResolves(p) ==
    /\ pc[p] = "gc_add"
    /\ addComicsCall(p)
    /\ Finish(p, getComicsReturn(parsedResult[p]))
    /\ UNCHANGED <<redisTotals, args, val, parsedResult, sent, ncalls>>
    /\ UNCHANGED <<randomVars, viewVars>>

\* Line 46: the awaited addComics rejects; getComics rejects.
gcAddRejects(p) ==
    /\ pc[p] = "gc_add"
    /\ Finish(p, Thrown("addComics"))
    /\ UNCHANGED <<redisPages, redisTotals, args, val, parsedResult, sent, ncalls>>
    /\ UNCHANGED <<randomVars, viewVars>>

(***************************************************************************)
(* getTotalComics(year), on a MarvelApi constructed with ignoreCache        *)
(***************************************************************************)
\* Lines 54-55: the read of the cached total is issued.
getTotalComics(p, year, ignoreCache) ==
    /\ CanStart(p)
    /\ Begin(p, [op |-> "getTotalComics", year |-> year, ignoreCache |-> ignoreCache])
    /\ pc' = [pc EXCEPT ![p] = "gt_get"]
    /\ ret' = [ret EXCEPT ![p] = Pending]
    /\ sent' = [sent EXCEPT ![p] = <<>>]
    /\ UNCHANGED <<redisPages, redisTotals>>
    /\ UNCHANGED <<randomVars, viewVars>>

\* Mutant: the bypass flag left out of the test of line 56.
UseCachedAlways(v, ignoreCache) == TruthyNumber(v)

\* val && !this.ignoreCache (line 56).
UseCached(v, ignoreCache) == TruthyNumber(v) /\ ~ignoreCache

\* Lines 55-60: the read resolves; the cached total is returned or the
\* request for a one-record page is issued.
gtGetResolves(p) ==
    /\ pc[p] = "gt_get"
    /\ LET v == redisGet(args[p].year) IN
       /\ val' = [val EXCEPT ![p] = v]
       /\ IF UseCached(v, args[p].ignoreCache)
          THEN /\ Finish(p, ReturnedTotal(The(v)))
               /\ UNCHANGED sent
          ELSE /\ pc' = [pc EXCEPT ![p] = "gt_fetch"]
               /\ callMarvelApi(p, sent[p], COMICS_ENDPOINT,
                                getComicsSearchParams(args[p].year, 0, 1))
               /\ UNCHANGED ret
    /\ UNCHANGED <<redisPages, redisTotals, args, parsedResult, ncalls>>
    /\ UNCHANGED <<randomVars, viewVars>>

\* Line 55: the read rejects; getTotalComics rejects.
gtGetRejects(p) ==
    /\ pc[p] = "gt_get"
    /\ Finish(p, Thrown("get"))
    /\ UNCHANGED <<redisPages, redisTotals, args, val, parsedResult, sent, ncalls>>
    /\ UNCHANGED <<randomVars, viewVars>>

\* Line 60: the awaited fetch resolves with a Response.
gtFetchResolves(p) ==
    /\ pc[p] = "gt_fetch"
    /\ pc' = [pc EXCEPT ![p] = "gt_json"]
    /\ UNCHANGED <<redisPages, redisTotals, args, val, parsedResult, sent, ret, ncalls>>
    /\ UNCHANGED <<randomVars, viewVars>>

\* Line 60: the awaited fetch rejects; getTotalComics rejects.
gtFetchRejects(p) ==
    /\ pc[p] = "gt_fetch"
    /\ Finish(p, Thrown("fetch"))
    /\ UNCHANGED <<redisPages, redisTotals, args, val, parsedResult, sent, ncalls>>
    /\ UNCHANGED <<randomVars, viewVars>>

\* Mutant: the sentinel is written to the store before it is returned.
getTotalComicsFailedCaching(p) ==
    /\ Finish(p, ReturnedTotal(-1))
    /\ redisSet(args[p].year, -1)

\* return -1 (line 68): nothing is written.
getTotalComicsFailed(p) ==
    /\ Finish(p, ReturnedTotal(-1))
    /\ UNCHANGED redisTotals

\* Lines 61-68: result.json() resolves with the decoded envelope.
gtJsonResolves(p, w) ==
    /\ pc[p] = "gt_json"
    /\ parsedResult' = [parsedResult EXCEPT ![p] = w]
    /\ IF totalIsSuccess(w)
       THEN /\ pc' = [pc EXCEPT ![p] = "gt_set"]
            /\ UNCHANGED <<ret, redisTotals>>
       ELSE getTotalComicsFailed(p)
    /\ UNCHANGED <<redisPages, args, val, sent, ncalls>>
    /\ UNCHANGED <<randomVars, viewVars>>

\* Line 61: result.json() rejects; getTotalComics rejects.
gtJsonRejects(p) ==
    /\ pc[p] = "gt_json"
    /\ Finish(p, Thrown("json"))
    /\ UNCHANGED <<redisPages, redisTotals, args, val, parsedResult, sent, ncalls>>
    /\ UNCHANGED <<randomVars, viewVars>>

\* Lines 64-66: the awaited set resolves, the total is in the store.
gtSetResolves(p) ==
    /\ pc[p] = "gt_set"
    /\ LET total == parsedResult[p].data.total IN
       /\ redisSet(args[p].year, total)
       /\ Finish(p, ReturnedTotal(total))
    /\ UNCHANGED <<redisPages, args, val, parsedResult, sent, ncalls>>
    /\ UNCHANGED <<randomVars, viewVars>>

\* Mutant: the rejection of the awaited set is swallowed and the fetched
\* total returned.
gtSetRejectsSwallowed(p) ==
    /\ pc[p] = "gt_set"
    /\ Finish(p, ReturnedTotal(parsedResult[p].data.total))
    /\ UNCHANGED <<redisPages, redisTotals, args, val, parsedResult, sent, ncalls>>
    /\ UNCHANGED <<randomVars, viewVars>>

\* Line 65: the awaited set rejects; getTotalComics rejects.
gtSetRejects(p) ==
    /\ pc[p] = "gt_set"
    /\ Finish(p, Thrown("set"))
    /\ UNCHANGED <<redisPages, redisTotals, args, val, parsedResult, sent, ncalls>>
    /\ UNCHANGED <<randomVars, viewVars>>

(***************************************************************************)
(* getRandomComics(startYear?, endYear?)                                    *)
(***************************************************************************)
NumIds == 2        \* ids of the records a sample is drawn from
MaxSample == 3     \* length of a sample the store returns

\* RandomComic: the id and the rest of the record (here its image).
RandomComic == [id : 1..NumIds, image : {"a.jpg", "b.jpg"}]
SeqsUpTo(S, n) == UNION {[1..k -> S] : k \in 0..n}
Samples == SeqsUpTo(RandomComic, MaxSample)

\* dedupe(arr, getKey) of $lib/util: keeps the first element of each key.
RECURSIVE dedupeFrom(_, _, _)
dedupeFrom(arr, i, seen) ==
    IF i > Len(arr) THEN <<>>
    ELSE IF arr[i].id \in seen THEN dedupeFrom(arr, i + 1, seen)
    ELSE <<arr[i]>> \o dedupeFrom(arr, i + 1, seen \cup {arr[i].id})
dedupe(arr) == dedupeFrom(arr, 1, {})

\* An optional number argument is truthy when given, not 0 and not NaN.
BothGiven(startYear, endYear) == TruthyNumber(startYear) /\ TruthyNumber(endYear)

\* Mutant: the sample returned as the store gave it.
getRandomComicsResultRaw(startYear, endYear, sample) == sample

\* Lines 72-77; sample is what the one store call made returns
\* (getRandomComicsForYear with both bounds, getRandomComics without).
getRandomComicsResult(startYear, endYear, sample) ==
    IF BothGiven(startYear, endYear) THEN dedupe(sample) ELSE sample

\* One call is followed per behaviour: calls share no state of their own.
getRandomComics(startYear, endYear, sample) ==
    /\ ~random.called
    /\ random' = [called |-> TRUE, startYear |-> startYear, endYear |-> endYear,
                  sample |-> sample,
                  result |-> getRandomComicsResult(startYear, endYear, sample)]
    /\ UNCHANGED <<fetchVars, viewVars>>

NoRandom == [called |-> FALSE]
OptionalYears == {Undefined} \cup {Some(y) : y \in Years}

(***************************************************************************)
(* The year page: filterComics over response.comics                         *)
(***************************************************************************)
NumSeries == 2
NumCreators == 2
NumEvents == 1
MaxMonth == 1      \* on-sale months 0..MaxMonth (0 is January)
MaxComics == 2     \* length of response.comics

months == <<"all", "Jan", "Feb", "Mar", "Apr", "May", "Jun",
            "Jul", "Aug", "Sep", "Oct", "Nov", "Dec">>

\* Array.prototype.indexOf of an element the array holds (0-based).
indexOf(arr, x) == (CHOOSE i \in 1..Len(arr) : arr[i] = x) - 1

SeriesNames == {<<"series", i>> : i \in 1..NumSeries}
CreatorNames == {<<"creator", i>> : i \in 1..NumCreators}
EventNames == {<<"event", i>> : i \in 1..NumEvents}
MonthChoices == {months[i] : i \in 1..(MaxMonth + 2)}

\* Comic, without its id: the fields filterComics reads, every value of
\* them, and the fields only sortComics reads, one value of them.
ComicFields == [series : [name : SeriesNames], creators : SUBSET CreatorNames,
                events : SUBSET EventNames, onSaleMonth : 0..MaxMonth,
                title : {<<"a">>}, unlimitedDate : {0}]
WithId(f, i) == [id |-> i, series |-> f.series, creators |-> f.creators,
                 events |-> f.events, onSaleMonth |-> f.onSaleMonth,
                 title |-> f.title, unlimitedDate |-> f.unlimitedDate]
\* The record sets of a response: ids are unique within a year.
ComicLists == {[i \in 1..Len(fs) |-> WithId(fs[i], i)] : fs \in SeqsUpTo(ComicFields, MaxComics)}

\* getSeries, getCreators, getEvents of $lib/comics, as the stores hold them
\* after applyNewComics(comics): the values the record set has.
getSeries(cs) == {cs[i].series.name : i \in 1..Len(cs)}
getCreators(cs) == UNION {cs[i].creators : i \in 1..Len(cs)}
getEvents(cs) == UNION {cs[i].events : i \in 1..Len(cs)}
series == getSeries(comics)
creators == getCreators(comics)
events == getEvents(comics)

\* isCreatorSelected, isEventSelected of $lib/comics.
isCreatorSelected(c, selected) == c.creators \cap selected # {}
isEventSelected(c, selected) == c.events \cap selected # {}

\* $: monthIndex = months.indexOf(month) - 1 (line 226).
monthIndexOf(m) == indexOf(months, m) - 1
monthIndex == monthIndexOf(month)

\* Mutants: "nothing deselected" inferred from an empty selection; the sizes
\* compared with <= instead of ===.
noCreatorsSelectedByEmptiness(selected) == Cardinality(selected) = 0
noSeriesSelectedAtMost(selected) == Cardinality(selected) <= Cardinality(series)
\* Mutant: an empty selection of events also counts as "nothing deselected".
noEventsSelectedOrEmpty(selected) ==
    selected = {} \/ Cardinality(selected) = Cardinality(events)

\* Lines 274-276.
noCreatorsSelected(selected) == Cardinality(selected) = Cardinality(creators)
noEventsSelected(selected) == Cardinality(selected) = Cardinality(events)
noSeriesSelected(selected) == Cardinality(selected) = Cardinality(series)

\* Lines 278-282: the predicate of comics.filter.
keepComic(c, selSeries, selCreators, selEvents, mIndex) ==
    /\ (mIndex < 0 \/ c.onSaleMonth = mIndex)
    /\ (noSeriesSelected(selSeries) \/ c.series.name \in selSeries)
    /\ (noCreatorsSelected(selCreators) \/ isCreatorSelected(c, selCreators))
    /\ (noEventsSelected(selEvents) \/ isEventSelected(c, selEvents))

filterComics(cs, selSeries, selCreators, selEvents, mIndex) ==
    SelectSeq(cs, LAMBDA c : keepComic(c, selSeries, selCreators, selEvents, mIndex))

(***************************************************************************)
(* The year page: sortComics over filteredComics, and orderedComics         *)
(***************************************************************************)
MaxUnlimited == 1  \* unlimited dates 0..MaxUnlimited

\* enum SortOption (lines 199-204) and sortingOptions (line 206).
BestMatch == "best match"
Title == "title"
PublishDate == "publish date"
UnlimitedDate == "unlimited date"
sortingOptions == {BestMatch, Title, PublishDate, UnlimitedDate}

\* A string is the sequence of its characters; Chars lists the characters
\* used, in the order of their code units.
Chars == <<" ", "A", "a", "b">>
charCode(c) == indexOf(Chars, c)
toLowerCaseChar(c) == IF c = "A" THEN "a" ELSE c
toLowerCase(str) == [i \in 1..Len(str) |-> toLowerCaseChar(str[i])]
startsWith(str, prefix) ==
    Len(prefix) <= Len(str) /\ SubSeq(str, 1, Len(prefix)) = prefix
includes(str, part) ==
    \E i \in 0..(Len(str) - Len(part)) : SubSeq(str, i + 1, i + Len(part)) = part

\* The titles of the records and the texts searched for: "ab", "Ab", "b a",
\* "ba", "a b", "bab", and "", "a", "ab", "bb". Every rank of matchSorter
\* occurs among them. A title is not empty.
Titles == {<<"a", "b">>, <<"A", "b">>, <<"b", " ", "a">>, <<"b", "a">>,
           <<"a", " ", "b">>, <<"b", "a", "b">>}
SearchTexts == {<<>>, <<"a">>, <<"a", "b">>, <<"b", "b">>}

\* compareTitles, compareDates, compareUnlimitedDates of $lib/comics: the
\* case-sensitive lexicographic comparison of the titles and the
\* chronological comparisons of the dates, negative when a comes first.
compareNumbers(x, y) == IF x < y THEN -1 ELSE IF x > y THEN 1 ELSE 0
RECURSIVE compareStrings(_, _, _)
compareStrings(x, y, i) ==
    IF i > Len(x) /\ i > Len(y) THEN 0
    ELSE IF i > Len(x) THEN -1
    ELSE IF i > Len(y) THEN 1
    ELSE IF x[i] # y[i] THEN compareNumbers(charCode(x[i]), charCode(y[i]))
    ELSE compareStrings(x, y, i + 1)
compareTitles(a, b) == compareStrings(a.title, b.title, 1)
compareDates(a, b) == compareNumbers(a.onSaleMonth, b.onSaleMonth)
compareUnlimitedDates(a, b) == compareNumbers(a.unlimitedDate, b.unlimitedDate)

\* (a, b) => compareX(a.item, b.item), the shape of every comparator that
\* lines 290-307 hand to matchSorter; f names the function of $lib/comics.
compareItems(f, a, b) ==
    CASE f = "compareTitles" -> compareTitles(a.item, b.item)
      [] f = "compareDates" -> compareDates(a.item, b.item)
      [] f = "compareUnlimitedDates" -> compareUnlimitedDates(a.item, b.item)

\* match-sorter: the rankings. A rank is the fraction <<numerator,
\* denominator>>, as the rank of a match by letters in order lies between
\* two rankings.
rankings == [CASE_SENSITIVE_EQUAL |-> <<7, 1>>, EQUAL |-> <<6, 1>>,
             STARTS_WITH |-> <<5, 1>>, WORD_STARTS_WITH |-> <<4, 1>>,
             CONTAINS |-> <<3, 1>>, ACRONYM |-> <<2, 1>>, MATCHES |-> <<1, 1>>,
             NO_MATCH |-> <<0, 1>>]
rankLess(r, q) == r[1] * q[2] < q[1] * r[2]
rankEqual(r, q) == r[1] * q[2] = q[1] * r[2]

\* match-sorter, getAcronym: the first character of every word, the words
\* being what is left between spaces and hyphens.
IsSeparator(c) == c \in {" ", "-"}
RECURSIVE acronymFrom(_, _)
acronymFrom(str, i) ==
    IF i > Len(str) THEN <<>>
    ELSE (IF ~IsSeparator(str[i]) /\ (i = 1 \/ IsSeparator(str[i - 1]))
          THEN <<str[i]>> ELSE <<>>) \o acronymFrom(str, i + 1)
getAcronym(str) == acronymFrom(str, 1)

\* match-sorter, findMatchingCharacter: the index after the first matchChar
\* at or after index (indexes from 0), -1 without one.
findMatchingCharacter(matchChar, str, index) ==
    IF \E j \in (index + 1)..Len(str) : str[j] = matchChar
    THEN CHOOSE j \in (index + 1)..Len(str) :
            str[j] = matchChar /\ \A k \in (index + 1)..(j - 1) : str[k] # matchChar
    ELSE -1

\* match-sorter, getClosenessRanking: the letters of stringToRank found in
\* order in testString rank MATCHES + 1 / spread.
RECURSIVE matchRest(_, _, _, _)
matchRest(testString, stringToRank, i, charNumber) ==
    IF i > Len(stringToRank) THEN charNumber
    ELSE LET next == findMatchingCharacter(stringToRank[i], testString, charNumber)
         IN IF next = -1 THEN -1 ELSE matchRest(testString, stringToRank, i + 1, next)
getClosenessRanking(testString, stringToRank) ==
    LET firstIndex == findMatchingCharacter(stringToRank[1], testString, 0)
        charNumber == matchRest(testString, stringToRank, 2, firstIndex)
        spread == charNumber - firstIndex
    IN IF firstIndex < 0 \/ charNumber = -1 THEN rankings.NO_MATCH
       ELSE <<spread + 1, spread>>

\* match-sorter, getMatchRanking. The characters used have no diacritics,
\* so prepareValueForComparison leaves both strings as they are.
getMatchRanking(testString, stringToRank) ==
    LET lowerTest == toLowerCase(testString)
        lowerRank == toLowerCase(stringToRank)
    IN IF Len(stringToRank) > Len(testString) THEN rankings.NO_MATCH
       ELSE IF testString = stringToRank THEN rankings.CASE_SENSITIVE_EQUAL
       ELSE IF lowerTest = lowerRank THEN rankings.EQUAL
       ELSE IF startsWith(lowerTest, lowerRank) THEN rankings.STARTS_WITH
       ELSE IF includes(lowerTest, <<" ">> \o lowerRank) THEN rankings.WORD_STARTS_WITH
       ELSE IF includes(lowerTest, lowerRank) THEN rankings.CONTAINS
       ELSE IF Len(lowerRank) = 1 THEN rankings.NO_MATCH
       ELSE IF includes(getAcronym(lowerTest), lowerRank) THEN rankings.ACRONYM
       ELSE getClosenessRanking(lowerTest, lowerRank)

\* match-sorter, reduceItemsToRanked with keys: ['title'] and the default
\* threshold MATCHES: the items that match, each with its rank.
RECURSIVE rankedFrom(_, _, _)
rankedFrom(items, value, i) ==
    IF i > Len(items) THEN <<>>
    ELSE LET rank == getMatchRanking(items[i].title, value)
         IN (IF rankLess(rank, rankings.MATCHES) THEN <<>>
             ELSE <<[item |-> items[i], rank |-> rank, index |-> i - 1]>>)
            \o rankedFrom(items, value, i + 1)

\* match-sorter, sortRankedValues: the higher rank first, baseSort between
\* equal ranks (one key, so the key indexes are equal).
sortRankedValues(a, b, baseSort) ==
    IF rankEqual(a.rank, b.rank) THEN compareItems(baseSort, a, b)
    ELSE IF rankLess(b.rank, a.rank) THEN -1 ELSE 1

\* The comparator handed to Array.prototype.sort: [ranked |-> TRUE] is
\* sortRankedValues with baseSort by, [ranked |-> FALSE] is by alone.
compareMatchItems(cmp, a, b) ==
    IF cmp.ranked THEN sortRankedValues(a, b, cmp.by) ELSE compareItems(cmp.by, a, b)

\* Array.prototype.sort(cmp): stable, so equal elements keep their order.
RECURSIVE insertSorted(_, _, _)
insertSorted(sorted, x, cmp) ==
    IF sorted = <<>> THEN <<x>>
    ELSE IF compareMatchItems(cmp, x, Head(sorted)) < 0 THEN <<x>> \o sorted
    ELSE <<Head(sorted)>> \o insertSorted(Tail(sorted), x, cmp)
RECURSIVE arraySort(_, _)
arraySort(arr, cmp) ==
    IF arr = <<>> THEN <<>>
    ELSE insertSorted(arraySort(SubSeq(arr, 1, Len(arr) - 1), cmp), arr[Len(arr)], cmp)

\* matchSorter(items, value, {keys: ['title'], baseSort, sorter}): without a
\* sorter the matched items are sorted by sortRankedValues.
matchSorter(items, value, baseSort, sorter) ==
    LET matchedItems == rankedFrom(items, value, 1)
        sortedItems == IF sorter = Undefined
                       THEN arraySort(matchedItems, [ranked |-> TRUE, by |-> baseSort])
                       ELSE arraySort(matchedItems, [ranked |-> FALSE, by |-> The(sorter)])
    IN [i \in 1..Len(sortedItems) |-> sortedItems[i].item]

\* Mutant: no sorter for any SortOption, the rank sorts under every one.
sortFunctionNone(by) == Undefined

\* Lines 287-300: the sorter of each SortOption, none for BestMatch.
sortFunction(by) ==
    CASE by = PublishDate -> Some("compareDates")
      [] by = Title -> Some("compareTitles")
      [] by = UnlimitedDate -> Some("compareUnlimitedDates")
      [] OTHER -> Undefined

\* baseSort of lines 306-308: a non-empty searchText is truthy.
baseSortFor(text) == IF text # <<>> THEN "compareTitles" ELSE "compareDates"

\* Mutant: with a sorter the records are sorted without being matched.
sortComicsUnmatched(cs, by, text) ==
    IF sortFunction(by) = Undefined
    THEN matchSorter(cs, text, baseSortFor(text), Undefined)
    ELSE matchSorter(cs, <<>>, baseSortFor(text), sortFunction(by))

\* Lines 286-314.
sortComics(cs, by, text) == matchSorter(cs, text, baseSortFor(text), sortFunction(by))

Reverse(s) == [i \in 1..Len(s) |-> s[Len(s) + 1 - i]]

\* Mutant: the other direction got by sorting again with the comparison of
\* the titles negated, which leaves equal titles in the order they had.
RECURSIVE insertByTitleDescending(_, _)
insertByTitleDescending(sorted, x) ==
    IF sorted = <<>> THEN <<x>>
    ELSE IF compareTitles(x, Head(sorted)) > 0 THEN <<x>> \o sorted
    ELSE <<Head(sorted)>> \o insertByTitleDescending(Tail(sorted), x)
RECURSIVE sortByTitleDescending(_)
sortByTitleDescending(arr) ==
    IF arr = <<>> THEN <<>>
    ELSE insertByTitleDescending(sortByTitleDescending(SubSeq(arr, 1, Len(arr) - 1)),
                                 arr[Len(arr)])
orderComicsResorted(sorted, descending) ==
    IF descending THEN sorted ELSE sortByTitleDescending(sorted)

\* Line 265.
orderComics(sorted, descending) == IF descending THEN sorted ELSE Reverse(sorted)

\* The reactive statements of lines 255-265, run after every change.
Refilter ==
    /\ filteredComics' = filterComics(comics', selectedSeries', selectedCreators',
                                      selectedEvents', monthIndexOf(month'))
    /\ sortedComics' = sortComics(filteredComics', sortBy', searchText')
    /\ orderedComics' = orderComics(sortedComics', sortDescending')

\* The Filter components write the selected stores: a subset of the universe.
selectSeries(S) ==
    /\ selectedSeries' = S
    /\ UNCHANGED <<comics, selectedCreators, selectedEvents, month>>
    /\ UNCHANGED <<searchText, sortBy, sortDescending, searchVars>>
    /\ Refilter
    /\ UNCHANGED <<fetchVars, randomVars>>

selectCreators(S) ==
    /\ selectedCreators' = S
    /\ UNCHANGED <<comics, selectedSeries, selectedEvents, month>>
    /\ UNCHANGED <<searchText, sortBy, sortDescending, searchVars>>
    /\ Refilter
    /\ UNCHANGED <<fetchVars, randomVars>>

selectEvents(S) ==
    /\ selectedEvents' = S
    /\ UNCHANGED <<comics, selectedSeries, selectedCreators, month>>
    /\ UNCHANGED <<searchText, sortBy, sortDescending, searchVars>>
    /\ Refilter
    /\ UNCHANGED <<fetchVars, randomVars>>

\* <Select options={months} bind:value={month}> (line 354).
selectMonth(m) ==
    /\ month' = m
    /\ UNCHANGED <<comics, selectedSeries, selectedCreators, selectedEvents>>
    /\ UNCHANGED <<searchText, sortBy, sortDescending, searchVars>>
    /\ Refilter
    /\ UNCHANGED <<fetchVars, randomVars>>

MaxInputs == 6     \* input events on the search field

\* value={searchText} (line 345): the field is given the value of
\* searchText whenever searchText has changed.
inputValueAfter ==
    inputValue' = IF searchText' # searchText THEN searchText' ELSE inputValue

\* Lines 316-322.
resetFilters ==
    /\ selectedCreators' = creators
    /\ selectedSeries' = series
    /\ selectedEvents' = events
    /\ searchText' = <<>>
    /\ month' = months[1]
    /\ inputValueAfter
    /\ UNCHANGED <<comics, sortBy, sortDescending, timer, pending, ntimers>>
    /\ Refilter
    /\ UNCHANGED <<fetchVars, randomVars>>

\* <Select options={sortingOptions} bind:value={sortBy}> (line 351).
selectSortBy(by) ==
    /\ sortBy' = by
    /\ UNCHANGED <<comics, selectedSeries, selectedCreators, selectedEvents, month>>
    /\ UNCHANGED <<searchText, sortDescending, searchVars>>
    /\ Refilter
    /\ UNCHANGED <<fetchVars, randomVars>>

\* <input type="checkbox" bind:checked={sortDescending} /> (line 357).
checkDescending(checked) ==
    /\ sortDescending' = checked
    /\ UNCHANGED <<comics, selectedSeries, selectedCreators, selectedEvents, month>>
    /\ UNCHANGED <<searchText, sortBy, searchVars>>
    /\ Refilter
    /\ UNCHANGED <<fetchVars, randomVars>>

\* Mutant: the timeout scheduled before is left to run.
clearTimeoutOmitted(scheduled, id) == scheduled
\* clearTimeout(timer) (line 234): nothing to clear while timer is undefined.
clearTimeout(scheduled, id) == scheduled \ id

\* Lines 233-238, on:input of the search field (line 346): the field's value
\* has become v; the timeout scheduled before is cleared and one scheduled.
updateSearchText(v) ==
    /\ ntimers < MaxInputs
    /\ inputValue' = v
    /\ ntimers' = ntimers + 1
    /\ timer' = Some(ntimers + 1)
    /\ pending' = clearTimeout(pending, timer) \cup {ntimers + 1}
    /\ UNCHANGED <<comics, selectedSeries, selectedCreators, selectedEvents, month>>
    /\ UNCHANGED <<searchText, sortBy, sortDescending>>
    /\ Refilter
    /\ UNCHANGED <<fetchVars, randomVars>>

\* Line 236, 250 ms after the timeout id was scheduled: the callback reads
\* the value the field has now.
timerFires(id) ==
    /\ id \in pending
    /\ pending' = pending \ {id}
    /\ searchText' = inputValue
    /\ inputValueAfter
    /\ UNCHANGED <<comics, selectedSeries, selectedCreators, selectedEvents, month>>
    /\ UNCHANGED <<sortBy, sortDescending, timer, ntimers>>
    /\ Refilter
    /\ UNCHANGED <<fetchVars, randomVars>>

(***************************************************************************)
(* Specifications                                                           *)
(***************************************************************************)
\* No getRandomComics call yet.
InitRandom == random = NoRandom

\* The page as mounted with a response and the query's month and search:
\* everything selected, best match, descending, no timeout scheduled.
InitViewOf(cs, m, search) ==
    /\ comics = cs
    /\ selectedSeries = getSeries(cs)
    /\ selectedCreators = getCreators(cs)
    /\ selectedEvents = getEvents(cs)
    /\ month = m
    /\ filteredComics = filterComics(cs, getSeries(cs), getCreators(cs), getEvents(cs),
                                     monthIndexOf(m))
    /\ searchText = search
    /\ sortBy = BestMatch
    /\ sortDescending = TRUE
    /\ sortedComics = sortComics(filteredComics, BestMatch, search)
    /\ orderedComics = orderComics(sortedComics, TRUE)
    /\ inputValue = search
    /\ timer = Undefined
    /\ pending = {}
    /\ ntimers = 0

\* The fetch layer alone: the page shows an empty response.
Init == InitFetch /\ InitRandom /\ InitViewOf(<<>>, months[1], <<>>)

Next ==
    \/ \E p \in Procs, y \in Years, n \in PageIdx, c \in CacheLookups, ids \in ComicIdSets :
            getComics(p, y, n, c, ids)
    \/ \E p \in Procs : gcFetchResolves(p)
    \/ \E p \in Procs : gcFetchRejects(p)
    \/ \E p \in Procs, w \in ComicDataWrapper : gcJsonResolves(p, w)
    \/ \E p \in Procs : gcJsonRejects(p)
    \/ \E p \in Procs : gcAddResolves(p)
    \/ \E p \in Procs : gcAddRejects(p)
    \/ \E p \in Procs, y \in Years, b \in BOOLEAN : getTotalComics(p, y, b)
    \/ \E p \in Procs : gtGetResolves(p)
    \/ \E p \in Procs : gtGetRejects(p)
    \/ \E p \in Procs : gtFetchResolves(p)
    \/ \E p \in Procs : gtFetchRejects(p)
    \/ \E p \in Procs, w \in ComicDataWrapper : gtJsonResolves(p, w)
    \/ \E p \in Procs : gtJsonRejects(p)
    \/ \E p \in Procs : gtSetResolves(p)
    \/ \E p \in Procs : gtSetRejects(p)

Spec == Init /\ [][Next]_vars

\* getRandomComics alone, for every pair of optional bounds and every sample.
NextRandom ==
    \E s \in OptionalYears, e \in OptionalYears, sample \in Samples :
        getRandomComics(s, e, sample)

SpecRandom == Init /\ [][NextRandom]_vars

\* The year page alone, for every response within the bounds.
InitView ==
    /\ InitFetch
    /\ InitRandom
    /\ \E cs \in ComicLists, m \in MonthChoices : InitViewOf(cs, m, <<>>)

NextView ==
    \/ \E S \in SUBSET series : selectSeries(S)
    \/ \E S \in SUBSET creators : selectCreators(S)
    \/ \E S \in SUBSET events : selectEvents(S)
    \/ \E m \in MonthChoices : selectMonth(m)
    \/ resetFilters

SpecView == InitView /\ [][NextView]_vars

\* The records of a response for the sort stage: every title and date, one
\* series, no creators and no events.
SortComicFields == [series : [name : {<<"series", 1>>}], creators : {{}}, events : {{}},
                    onSaleMonth : 0..MaxMonth, title : Titles,
                    unlimitedDate : 0..MaxUnlimited]
SortComicLists ==
    {[i \in 1..Len(fs) |-> WithId(fs[i], i)] : fs \in SeqsUpTo(SortComicFields, MaxComics)}

\* The year page's sort stage, for every response, month and search of the
\* query within the bounds.
InitSort ==
    /\ InitFetch
    /\ InitRandom
    /\ \E cs \in SortComicLists, m \in MonthChoices, search \in SearchTexts :
            InitViewOf(cs, m, search)

NextSort ==
    \/ \E by \in sortingOptions : selectSortBy(by)
    \/ \E checked \in BOOLEAN : checkDescending(checked)
    \/ \E m \in MonthChoices : selectMonth(m)
    \/ resetFilters

SpecSort == InitSort /\ [][NextSort]_vars

\* The search field, over one response of two records.
SearchComics ==
    <<WithId([series |-> [name |-> <<"series", 1>>], creators |-> {}, events |-> {},
              onSaleMonth |-> 0, title |-> <<"a", "b">>, unlimitedDate |-> 0], 1),
      WithId([series |-> [name |-> <<"series", 1>>], creators |-> {}, events |-> {},
              onSaleMonth |-> 0, title |-> <<"b", "a", "b">>, unlimitedDate |-> 0], 2)>>

InitSearch ==
    /\ InitFetch
    /\ InitRandom
    /\ \E search \in SearchTexts : InitViewOf(SearchComics, months[1], search)

NextSearch ==
    \/ \E v \in SearchTexts : updateSearchText(v)
    \/ \E id \in 1..MaxInputs : timerFires(id)
    \/ resetFilters

SpecSearch == InitSearch /\ [][NextSearch]_vars

(***************************************************************************)
(* Properties of the fetch layer                                            *)
(***************************************************************************)
IsGetComics(p) == args[p].op = "getComics"
IsGetTotal(p) == args[p].op = "getTotalComics"
PageKey(p) == <<args[p].year, args[p].page>>
CacheMiss(p) == IsGetComics(p) /\ args[p].page \notin DOMAIN args[p].cache
CacheHit(p) == IsGetComics(p) /\ args[p].page \in DOMAIN args[p].cache
Ends(p) == pc[p] # "done" /\ pc'[p] = "done"

\* How a getComics invocation ends when its fetch did not succeed: the fetch
\* or the decoding failed, or the decoded answer has a non-success code.
FetchFailed(r) ==
    \/ r \in {Thrown("fetch"), Thrown("json")}
    \/ r.kind = "page" /\ r.page.code # HTTP_OK

C1StoreOnlySuccess == \A k \in DOMAIN redisPages : redisPages[k].value.code = HTTP_OK
C1AddOnlySuccess == \A p \in Procs : pc[p] = "gc_add" => parsedResult[p].code = HTTP_OK
C1MissReachesUpstream == \A p \in Procs : CacheMiss(p) => Len(sent[p]) = 1
C1FailureLeavesStore ==
    \A p \in Procs :
        (Ends(p) /\ IsGetComics(p) /\ pc[p] # "idle" /\ FetchFailed(ret'[p]))
            => UNCHANGED redisPages

\* C1: every page in the store has the success code; addComics is awaited
\* only with a success answer; a getComics invocation that ends with a
\* network failure, a decode failure or a non-success answer leaves the
\* store's pages as they were; and every getComics call whose lookup does
\* not hold the page (as after such a failure) has sent an upstream request.
C1Theorem ==
    /\ [](C1StoreOnlySuccess /\ C1AddOnlySuccess /\ C1MissReachesUpstream)
    /\ [][C1FailureLeavesStore]_vars

\* A call got a non-success answer and returned it, the page is not in the
\* store, and another call for the same page has reached the upstream.
C1Witness ==
    \E p, q \in Procs :
        /\ p # q /\ CacheMiss(p) /\ CacheMiss(q) /\ PageKey(p) = PageKey(q)
        /\ pc[p] = "done" /\ ret[p].kind = "page" /\ ret[p].page.code # HTTP_OK
        /\ PageKey(p) \notin DOMAIN redisPages
        /\ pc[q] = "gc_json" /\ Len(sent[q]) = 1

C2HitReturnsEntry ==
    \A p \in Procs :
        CacheHit(p) => /\ pc[p] = "done"
                       /\ ret[p] = ReturnedPage(args[p].cache[args[p].page])
                       /\ sent[p] = <<>>
C2SameTwice ==
    \A p, q \in Procs :
        (CacheHit(p) /\ CacheHit(q) /\ args[p] = args[q]) => ret[p] = ret[q]
C2StartWritesNothing == ncalls' # ncalls => UNCHANGED <<redisPages, redisTotals>>

\* C2: a getComics call whose lookup holds the page is over at once, has
\* returned exactly cache[page] and has sent no upstream request; two calls
\* with the same arguments return the same page; and the step that starts
\* (and, on a hit, ends) an invocation writes nothing to the store.
C2Theorem ==
    /\ [](C2HitReturnsEntry /\ C2SameTwice)
    /\ [][C2StartWritesNothing]_vars

\* Two calls with the same lookup holding the page, both over, no request sent.
C2Witness ==
    \E p, q \in Procs :
        /\ p # q /\ CacheHit(p) /\ CacheHit(q) /\ args[p] = args[q]
        /\ ncalls = 2 /\ pc[p] = "done" /\ pc[q] = "done"
        /\ ret[p] = ReturnedPage(args[p].cache[args[p].page]) /\ ret[q] = ret[p]
        /\ sent[p] = <<>> /\ sent[q] = <<>>
        /\ DOMAIN args[p].cache = PageIdx

\* The read of the cached total has resolved (it did not reject).
ReadDone(p) ==
    /\ IsGetTotal(p)
    /\ pc[p] \in {"gt_fetch", "gt_json", "gt_set", "done"}
    /\ ret[p] # Thrown("get")

C3NoSentinel == \A y \in DOMAIN redisTotals : redisTotals[y] # -1
C3FailureReturnsSentinel ==
    \A p \in Procs :
        (IsGetTotal(p) /\ parsedResult[p] \in FailureWrappers)
            => pc[p] = "done" /\ ret[p] = ReturnedTotal(-1)
C3UncachedRefetches ==
    \A p \in Procs :
        (ReadDone(p) /\ ~args[p].ignoreCache /\ val[p] = Undefined) => Len(sent[p]) = 1
C3SentinelWritesNothing ==
    \A p \in Procs :
        (Ends(p) /\ IsGetTotal(p) /\ ret'[p] = ReturnedTotal(-1)) => UNCHANGED redisTotals

\* C3: the store never holds -1 as a year total; a getTotalComics call whose
\* answer has a non-success code has returned -1, and the step that returns
\* -1 leaves the totals as they were; every non-bypass call that read no
\* cached total has sent an upstream request.
C3Theorem ==
    /\ [](C3NoSentinel /\ C3FailureReturnsSentinel /\ C3UncachedRefetches)
    /\ [][C3SentinelWritesNothing]_vars

\* A call returned -1, the year has no total in the store, and another
\* non-bypass call for the year read nothing and reached the upstream.
C3Witness ==
    \E p, q \in Procs :
        /\ p # q /\ IsGetTotal(p) /\ IsGetTotal(q) /\ args[p].year = args[q].year
        /\ pc[p] = "done" /\ ret[p] = ReturnedTotal(-1)
        /\ args[p].year \notin DOMAIN redisTotals
        /\ ~args[q].ignoreCache /\ pc[q] = "gt_fetch" /\ val[q] = Undefined
        /\ Len(sent[q]) = 1

\* C4: a getTotalComics call that does not bypass the cache and read a
\* cached total (0 included) is over, has returned that total and has sent
\* no upstream request.
C4CachedTotalReturned ==
    \A p \in Procs :
        (ReadDone(p) /\ ~args[p].ignoreCache /\ val[p] # Undefined)
            => /\ pc[p] = "done"
               /\ ret[p] = ReturnedTotal(The(val[p]))
               /\ sent[p] = <<>>

(***************************************************************************)
(* Properties of getRandomComics                                            *)
(***************************************************************************)
IdsOf(recs) == {recs[i].id : i \in 1..Len(recs)}
\* The position of the first record of the sample with this id.
FirstAt(sample, id) ==
    CHOOSE i \in 1..Len(sample) :
        sample[i].id = id /\ \A j \in 1..(i - 1) : sample[j].id # id

\* C5: with both bounds given, the result holds no id twice, holds exactly
\* the ids of the store's sample, and lists for each id the first record of
\* the sample with that id, in the order of those first occurrences.
C5Theorem ==
    (random.called /\ random.startYear # Undefined /\ random.endYear # Undefined)
        => LET r == random.result
               smp == random.sample
           IN /\ \A i, j \in 1..Len(r) : i # j => r[i].id # r[j].id
              /\ IdsOf(r) = IdsOf(smp)
              /\ \A i \in 1..Len(r) : r[i] = smp[FirstAt(smp, r[i].id)]
              /\ \A i, j \in 1..Len(r) :
                    i < j => FirstAt(smp, r[i].id) < FirstAt(smp, r[j].id)

\* Both bounds given and a sample that repeats an id with another record:
\* the result is shorter than the sample and still holds two ids.
C5Witness ==
    /\ random.called /\ random.startYear # Undefined /\ random.endYear # Undefined
    /\ Len(random.sample) = 3 /\ Len(random.result) = 2
    /\ random.sample[1].id = random.sample[3].id
    /\ random.sample[1] # random.sample[3]

(***************************************************************************)
(* Properties of the fetch layer, continued                                 *)
(***************************************************************************)
C6AtMostOneRequest == \A p \in Procs : Len(sent[p]) <= 1
C6ErrorMeansFailure ==
    \A p \in Procs :
        (pc[p] = "done" /\ parsedResult[p] = NoWrapper /\ Len(sent[p]) = 1)
            => ret[p] \in {Thrown("fetch"), Thrown("json")}
C6FailurePropagates ==
    \A p \in Procs :
        (pc[p] \in {"gc_fetch", "gc_json", "gt_fetch", "gt_json"}
            /\ pc'[p] = "done" /\ parsedResult'[p] = NoWrapper)
            => /\ ret'[p] \in {Thrown("fetch"), Thrown("json")}
               /\ UNCHANGED <<redisPages, redisTotals>>

\* C6: no invocation has sent more than one upstream request; an invocation
\* that sent its request and ended with nothing decoded (the fetch or the
\* decoding failed) ended with that error, returning neither page nor
\* total, and the step that ends it leaves the store as it was.
C6Theorem ==
    /\ [](C6AtMostOneRequest /\ C6ErrorMeansFailure)
    /\ [][C6FailurePropagates]_vars

\* One call ended with the fetch's error and one with the decoding's, each
\* after a single request, and the store is empty.
C6Witness ==
    \E p, q \in Procs :
        /\ IsGetComics(p) /\ IsGetTotal(q)
        /\ pc[p] = "done" /\ ret[p] = Thrown("fetch") /\ Len(sent[p]) = 1
        /\ pc[q] = "done" /\ ret[q] = Thrown("json") /\ Len(sent[q]) = 1
        /\ DOMAIN redisPages = {} /\ DOMAIN redisTotals = {}

\* Exactly two invocations were started, one by p and one by q.
OnlyTwoCalls(p, q) ==
    p # q /\ ncalls = 2 /\ args[p].op # "none" /\ args[q].op # "none"

C7AtMostTwoRequests ==
    \A p, q \in Procs : OnlyTwoCalls(p, q) => Len(sent[p]) + Len(sent[q]) <= 2
C7PagesAsAfterOne ==
    \A p, q \in Procs :
        (/\ OnlyTwoCalls(p, q) /\ CacheMiss(p) /\ CacheMiss(q) /\ PageKey(p) = PageKey(q)
         /\ pc[p] = "done" /\ pc[q] = "done"
         /\ ret[p].kind = "page" /\ ret[p].page.code = HTTP_OK /\ ret[q] = ret[p])
            => /\ DOMAIN redisPages = {PageKey(p)}
               /\ redisPages[PageKey(p)].value = ret[p].page
               /\ redisPages[PageKey(p)].comicIdsWithImages
                     \in {args[p].comicIdsWithImages, args[q].comicIdsWithImages}
C7TotalsAsAfterOne ==
    \A p, q \in Procs :
        (/\ OnlyTwoCalls(p, q) /\ IsGetTotal(p) /\ IsGetTotal(q)
         /\ args[p].year = args[q].year
         /\ pc[p] = "done" /\ pc[q] = "done"
         /\ Len(sent[p]) = 1 /\ Len(sent[q]) = 1
         /\ ret[p].kind = "total" /\ ret[p].total >= 0 /\ ret[q] = ret[p])
            => redisTotals = (args[p].year :> ret[p].total)
C7StoreClean ==
    /\ \A k \in DOMAIN redisPages : redisPages[k].value \in SuccessWrappers
    /\ \A y \in DOMAIN redisTotals : redisTotals[y] \in Totals

\* C7: two invocations for the same key, in any interleaving, send at most
\* two upstream requests together; when both got the same success answer
\* and returned it, the store holds that answer under the key and nothing
\* else, as after one invocation; and the store holds no non-success page
\* and no -1 total.
C7Theorem ==
    /\ C7AtMostTwoRequests
    /\ C7PagesAsAfterOne
    /\ C7TotalsAsAfterOne
    /\ C7StoreClean

\* Two non-bypass getTotalComics calls for one year both reached the
\* upstream (each read the store before the other wrote), both got total 1
\* and the store holds 1 for the year.
C7Witness ==
    \E p, q \in Procs :
        /\ OnlyTwoCalls(p, q) /\ IsGetTotal(p) /\ IsGetTotal(q)
        /\ args[p] = args[q] /\ ~args[p].ignoreCache
        /\ pc[p] = "done" /\ pc[q] = "done"
        /\ Len(sent[p]) = 1 /\ Len(sent[q]) = 1
        /\ ret[p] = ReturnedTotal(1) /\ ret[q] = ReturnedTotal(1)
        /\ redisTotals = (args[p].year :> 1)

\* C8: a getComics call whose decoded answer has a non-success code is over
\* and has returned that answer, code included, not an error.
C8Theorem ==
    \A p \in Procs :
        (IsGetComics(p) /\ parsedResult[p] \in FailureWrappers)
            => pc[p] = "done" /\ ret[p] = ReturnedPage(parsedResult[p])

\* A call sent its request, decoded an answer with code 409 and returned it.
C8Witness ==
    \E p \in Procs :
        /\ CacheMiss(p) /\ pc[p] = "done" /\ Len(sent[p]) = 1
        /\ parsedResult[p].code = 409 /\ ret[p] = ReturnedPage([code |-> 409])

(***************************************************************************)
(* Properties of filterComics                                               *)
(***************************************************************************)
FullSelection ==
    selectedSeries = series /\ selectedCreators = creators /\ selectedEvents = events

\* C9: with the three selections equal to the universes of the record set
\* and no month filter, the filtered records are exactly the input records,
\* in the input's order.
C9Theorem == (FullSelection /\ monthIndex = -1) => filteredComics = comics

\* Everything selected, no month filter, two records of which one has no
\* creator and no event while the universes are not empty: both are kept.
C9Witness ==
    /\ FullSelection /\ monthIndex = -1
    /\ Len(comics) = 2 /\ creators # {} /\ events # {}
    /\ \E i \in 1..2 : comics[i].creators = {} /\ comics[i].events = {}
    /\ filteredComics = comics

WithSeries(cs, S) == SelectSeq(cs, LAMBDA c : c.series.name = S)

\* C10: when the record set has more than one series and the series
\* selection is one of them, {S}, with creators and events fully selected
\* and no month filter, the filtered records are exactly the input records
\* whose series is S, each of them an input record.
C10Theorem ==
    \A S \in series :
        (/\ Cardinality(series) > 1 /\ selectedSeries = {S}
         /\ selectedCreators = creators /\ selectedEvents = events /\ monthIndex = -1)
            => /\ filteredComics = WithSeries(comics, S)
               /\ \A i \in 1..Len(filteredComics) :
                     \E j \in 1..Len(comics) : filteredComics[i] = comics[j]

\* Two records of two series, one series selected: one record is kept.
C10Witness ==
    /\ Cardinality(series) = 2 /\ Cardinality(selectedSeries) = 1
    /\ selectedSeries \subseteq series
    /\ selectedCreators = creators /\ selectedEvents = events /\ monthIndex = -1
    /\ Len(comics) = 2 /\ Len(filteredComics) = 1
    /\ filteredComics[1].series.name \in selectedSeries

\* A record passes a category when the selection has the size of the
\* category's universe, or holds one of the record's values.
PassesBySize(selected, universe, values) ==
    Cardinality(selected) = Cardinality(universe) \/ values \cap selected # {}
InFiltered(c) == \E i \in 1..Len(filteredComics) : filteredComics[i] = c

C11ShortcutBySize ==
    \A i \in 1..Len(comics) :
        InFiltered(comics[i]) <=>
            /\ (monthIndex < 0 \/ comics[i].onSaleMonth = monthIndex)
            /\ PassesBySize(selectedSeries, series, {comics[i].series.name})
            /\ PassesBySize(selectedCreators, creators, comics[i].creators)
            /\ PassesBySize(selectedEvents, events, comics[i].events)
C11EmptySelectionPassesNothing ==
    (\/ series # {} /\ selectedSeries = {}
     \/ creators # {} /\ selectedCreators = {}
     \/ events # {} /\ selectedEvents = {}) => filteredComics = <<>>
C11EmptyUniversePassesAll ==
    /\ (creators = {} /\ selectedCreators = {})
            => filteredComics = filterComics(comics, selectedSeries, creators,
                                             selectedEvents, monthIndex)
    /\ (events = {} /\ selectedEvents = {})
            => filteredComics = filterComics(comics, selectedSeries, selectedCreators,
                                             events, monthIndex)
    /\ (series = {} /\ selectedSeries = {}) => filteredComics = comics

\* C11: a record is in the filtered records exactly when its month passes
\* and, for each of series, creators and events, the selection has the size
\* of the category's universe or holds a value of the record; an empty
\* selection over a non-empty universe keeps no record; an empty selection
\* over an empty universe filters as the full selection does.
C11Theorem ==
    /\ C11ShortcutBySize
    /\ C11EmptySelectionPassesNothing
    /\ C11EmptyUniversePassesAll

\* Two records, none with a creator (empty universe, empty selection) and
\* at least one with an event; with events fully selected both would be
\* kept, with every event deselected no record is.
C11Witness ==
    /\ Len(comics) = 2 /\ creators = {} /\ selectedCreators = {}
    /\ events # {} /\ selectedEvents = {}
    /\ selectedSeries = series /\ monthIndex = -1
    /\ filterComics(comics, series, creators, events, monthIndex) = comics
    /\ filteredComics = <<>>

(***************************************************************************)
(* Properties of the fetch layer: requests, bypass, write before return     *)
(***************************************************************************)
YearRange(year) == <<year, 1, 1, year, 12, 31>>
Carries(request, year, offset, limit) ==
    /\ request.url = COMICS_ENDPOINT
    /\ request.search.limit = limit
    /\ request.search.offset = offset
    /\ request.search.orderBy = "modified"
    /\ request.search.dateRange = YearRange(year)

\* C17: every request a getComics(year, page) call has sent carries limit
\* 100, offset page * 100, orderBy modified and the date range of the year;
\* every request a getTotalComics(year) call has sent carries limit 1,
\* offset 0, orderBy modified and the date range of the year.
C17Theorem ==
    \A p \in Procs : \A i \in 1..Len(sent[p]) :
        /\ IsGetComics(p) => Carries(sent[p][i], args[p].year, args[p].page * 100, 100)
        /\ IsGetTotal(p) => Carries(sent[p][i], args[p].year, 0, 1)

\* A getComics call for page 1 has sent its request with offset 100 while a
\* getTotalComics call for another year has sent its one-record request.
C17Witness ==
    \E p, q \in Procs :
        /\ IsGetComics(p) /\ args[p].page = 1 /\ Len(sent[p]) = 1
        /\ sent[p][1].search.offset = 100 /\ sent[p][1].search.limit = 100
        /\ IsGetTotal(q) /\ args[q].year # args[p].year /\ Len(sent[q]) = 1
        /\ sent[q][1].search.offset = 0 /\ sent[q][1].search.limit = 1
        /\ sent[q][1].search.dateRange # sent[p][1].search.dateRange

Bypasses(p) == IsGetTotal(p) /\ args[p].ignoreCache

C18OneRequest == \A p \in Procs : (Bypasses(p) /\ ReadDone(p)) => Len(sent[p]) = 1
C18ReturnsFetched ==
    \A p \in Procs :
        (Bypasses(p) /\ pc[p] = "done" /\ ret[p].kind = "total")
            => /\ Len(sent[p]) = 1
               /\ parsedResult[p] \in SuccessWrappers
                     => ret[p].total = parsedResult[p].data.total
               /\ parsedResult[p] \in FailureWrappers => ret[p].total = -1
               /\ parsedResult[p] # NoWrapper
C18SuccessReplaces ==
    \A p \in Procs :
        (Ends(p) /\ Bypasses(p) /\ parsedResult'[p] \in SuccessWrappers
            /\ ret'[p].kind = "total")
            => /\ args[p].year \in DOMAIN redisTotals'
               /\ redisTotals'[args[p].year] = parsedResult'[p].data.total
C18FailureKeeps ==
    \A p \in Procs :
        (Ends(p) /\ Bypasses(p) /\ parsedResult'[p] \in FailureWrappers)
            => ret'[p] = ReturnedTotal(-1) /\ UNCHANGED redisTotals

\* C18: a getTotalComics call that bypasses the cache and whose read of the
\* store resolved has sent exactly one upstream request, whatever it read;
\* the total it returns is the one of the decoded answer (or -1 for a
\* non-success answer), never the value read; the step that returns a
\* fetched total leaves that total in the store for the year, and the step
\* that returns -1 leaves the totals as they were.
C18Theorem ==
    /\ [](C18OneRequest /\ C18ReturnsFetched)
    /\ [][C18SuccessReplaces /\ C18FailureKeeps]_vars

\* A bypassing call read a cached total 1, sent one request, was answered
\* total 0 and returned 0, which the store now holds for the year.
C18Witness ==
    \E p \in Procs :
        /\ Bypasses(p) /\ pc[p] = "done" /\ val[p] = Some(1)
        /\ Len(sent[p]) = 1 /\ ret[p] = ReturnedTotal(0)
        /\ redisTotals[args[p].year] = 0

HoldsPage(p) ==
    /\ PageKey(p) \in DOMAIN redisPages
    /\ redisPages[PageKey(p)] = [value |-> parsedResult[p],
                                 comicIdsWithImages |-> args[p].comicIdsWithImages]
HoldsTotal(p) ==
    /\ args[p].year \in DOMAIN redisTotals
    /\ redisTotals[args[p].year] = parsedResult[p].data.total
\* The step in which the invocation of p that fetched a success answer ends.
EndsFetched(p) ==
    /\ pc[p] \in {"gc_json", "gc_add", "gt_json", "gt_set"} /\ pc'[p] = "done"
    /\ parsedResult'[p] \in SuccessWrappers

C19PageWrittenAtReturn ==
    \A p \in Procs :
        (EndsFetched(p) /\ IsGetComics(p) /\ ret'[p].kind = "page")
            => ret'[p].page = parsedResult'[p] /\ HoldsPage(p)'
C19TotalWrittenAtReturn ==
    \A p \in Procs :
        (EndsFetched(p) /\ IsGetTotal(p) /\ ret'[p].kind = "total" /\ ret'[p].total >= 0)
            => ret'[p].total = parsedResult'[p].data.total /\ HoldsTotal(p)'
C19FailedWriteFails ==
    \A p \in Procs :
        (EndsFetched(p) /\ UNCHANGED <<redisPages, redisTotals>>
            /\ ~(IF IsGetComics(p) THEN HoldsPage(p) ELSE HoldsTotal(p)))
            => ret'[p].kind = "error"

\* C19: in the step in which getComics returns a success page it fetched,
\* the store holds that page with the caller's comicIdsWithImages; in the
\* step in which getTotalComics returns a fetched total >= 0, the store
\* holds that total for the year; a call that fetched a success answer and
\* ends without the store having been written ends with an error.
C19Theorem == [][C19PageWrittenAtReturn /\ C19TotalWrittenAtReturn /\ C19FailedWriteFails]_vars

\* One call returned the page it fetched, which the store holds with the
\* call's ids; another fetched a total, its write was rejected, it ended
\* with that error and the store has no total for the year.
C19Witness ==
    \E p, q \in Procs :
        /\ CacheMiss(p) /\ pc[p] = "done" /\ Len(sent[p]) = 1
        /\ ret[p] = ReturnedPage(parsedResult[p]) /\ parsedResult[p].code = HTTP_OK
        /\ HoldsPage(p) /\ args[p].comicIdsWithImages # {}
        /\ IsGetTotal(q) /\ pc[q] = "done" /\ ret[q] = Thrown("set")
        /\ parsedResult[q] \in SuccessWrappers
        /\ args[q].year \notin DOMAIN redisTotals

(***************************************************************************)
(* Properties of sortComics and orderedComics                               *)
(***************************************************************************)
rankOf(c) == getMatchRanking(c.title, searchText)
\* The comparator the spec attaches to a sort key.
keyCompare(by, a, b) ==
    CASE by = Title -> compareTitles(a, b)
      [] by = PublishDate -> compareDates(a, b)
      [] by = UnlimitedDate -> compareUnlimitedDates(a, b)
      [] by = BestMatch -> IF searchText # <<>> THEN compareTitles(a, b)
                           ELSE compareDates(a, b)
Ids(s) == [i \in 1..Len(s) |-> s[i].id]

\* C12: with a non-empty searchText and under every sort key, no record of
\* sortedComics comes before a record of a better rank, and records of
\* equal rank are in the order of the sort key's comparator.
C12RankFirstUnderEveryKey ==
    searchText # <<>> =>
        \A i, j \in 1..Len(sortedComics) :
            i < j => /\ ~rankLess(rankOf(sortedComics[i]), rankOf(sortedComics[j]))
                     /\ rankEqual(rankOf(sortedComics[i]), rankOf(sortedComics[j]))
                            => keyCompare(sortBy, sortedComics[i], sortedComics[j]) <= 0

\* C12, amended: with a non-empty searchText, under best match no record of
\* sortedComics comes before a record of a better rank and records of equal
\* rank are in title order; under title, publish date and unlimited date
\* the records are in the order of that key's comparator alone, whatever
\* their ranks; records the deciding comparator holds equal keep the order
\* of filteredComics.
C12Theorem ==
    searchText # <<>> =>
        \A i, j \in 1..Len(sortedComics) :
            i < j =>
                LET a == sortedComics[i]
                    b == sortedComics[j]
                IN IF sortBy = BestMatch
                   THEN /\ ~rankLess(rankOf(a), rankOf(b))
                        /\ rankEqual(rankOf(a), rankOf(b)) => compareTitles(a, b) <= 0
                        /\ (rankEqual(rankOf(a), rankOf(b)) /\ compareTitles(a, b) = 0)
                              => a.id < b.id
                   ELSE /\ keyCompare(sortBy, a, b) <= 0
                        /\ keyCompare(sortBy, a, b) = 0 => a.id < b.id

\* Sorted by title with a search text: the record listed first has the
\* worse rank of the two.
C12Witness ==
    /\ searchText # <<>> /\ sortBy = Title /\ Len(sortedComics) = 2
    /\ rankLess(rankOf(sortedComics[1]), rankOf(sortedComics[2]))
    /\ compareTitles(sortedComics[1], sortedComics[2]) < 0

SameRecords(s, t) ==
    /\ Len(s) = Len(t)
    /\ {s[i] : i \in 1..Len(s)} = {t[i] : i \in 1..Len(t)}
    /\ \A i, j \in 1..Len(s) : i # j => s[i].id # s[j].id

\* C13: under best match, records of equal rank are in title order when
\* searchText is not empty and in publish-date order when it is empty; with
\* an empty searchText the page lists every filtered record, by descending
\* publish date when Descending is checked and by ascending publish date
\* when it is not.
C13BestMatchFallback ==
    sortBy = BestMatch =>
        /\ \A i, j \in 1..Len(sortedComics) :
              (i < j /\ rankEqual(rankOf(sortedComics[i]), rankOf(sortedComics[j])))
                  => keyCompare(BestMatch, sortedComics[i], sortedComics[j]) <= 0
        /\ searchText = <<>> =>
              /\ SameRecords(orderedComics, filteredComics)
              /\ \A i, j \in 1..Len(orderedComics) :
                    i < j => IF sortDescending
                             THEN compareDates(orderedComics[i], orderedComics[j]) >= 0
                             ELSE compareDates(orderedComics[i], orderedComics[j]) <= 0

\* C14: the page lists sortedComics as it is when Descending is not checked
\* and reversed when Descending is checked.
C14ReversedWhenDescending ==
    orderedComics = IF sortDescending THEN Reverse(sortedComics) ELSE sortedComics

C15TitleDirections ==
    (sortBy = Title /\ sortBy' = Title /\ sortDescending' # sortDescending)
        => Ids(orderedComics') = Reverse(Ids(orderedComics))

\* C15: sorted by title, the step that changes the direction and nothing
\* else turns the sequence of ids the page lists into its exact reverse,
\* records of equal title included.
C15Theorem == [][C15TitleDirections]_vars

\* Sorted by title, not descending, two records of one title: the page
\* lists them in the reverse of the order sortedComics has them in.
C15Witness ==
    /\ sortBy = Title /\ ~sortDescending /\ Len(sortedComics) = 2
    /\ compareTitles(sortedComics[1], sortedComics[2]) = 0
    /\ Ids(sortedComics) = <<1, 2>> /\ Ids(orderedComics) = <<2, 1>>

\* The letters of text occur in str in their order, whatever their case.
InOrderIn(text, str) ==
    \E f \in [1..Len(text) -> 1..Len(str)] :
        /\ \A i \in 1..Len(text) : toLowerCaseChar(str[f[i]]) = toLowerCaseChar(text[i])
        /\ \A i, j \in 1..Len(text) : i < j => f[i] < f[j]
Matching(cs, text) == SelectSeq(cs, LAMBDA c : InOrderIn(text, c.title))

\* C16: under every sort key and direction the page lists, each once,
\* exactly the filtered records whose title holds the letters of searchText
\* in their order (every filtered record when searchText is empty, none
\* when no title matches or nothing was filtered in).
C16Theorem ==
    /\ SameRecords(orderedComics, Matching(filteredComics, searchText))
    /\ searchText = <<>> => SameRecords(orderedComics, filteredComics)
    /\ filteredComics = <<>> => orderedComics = <<>>

\* Two filtered records, sorted by a date, a search text only one title
\* matches, and that by letters apart from each other.
C16Witness ==
    /\ searchText = <<"b", "b">> /\ sortBy = UnlimitedDate /\ ~sortDescending
    /\ Len(filteredComics) = 2 /\ Len(orderedComics) = 1
    /\ orderedComics[1].title = <<"b", "a", "b">>

(***************************************************************************)
(* Properties of the search field                                           *)
(***************************************************************************)
\* The step is an input event; the step runs the callback of a timeout.
InputStep == ntimers' = ntimers + 1
FireStep == ntimers' = ntimers /\ pending' # pending

C20OnePending == Cardinality(pending) <= 1 /\ pending \subseteq timer
C20InputKeepsText == InputStep => searchText' = searchText
C20FiringTakesLatest ==
    FireStep => /\ pending \ pending' = timer
                /\ pending' = {}
                /\ searchText' = inputValue
                /\ inputValue' = inputValue

\* C20: at most one timeout is scheduled and not yet run, the one of the
\* last input event; an input event leaves searchText as it is; the step
\* that runs a timeout's callback runs the one of the last input event,
\* leaves none scheduled and makes searchText the value the field has.
C20Theorem ==
    /\ []C20OnePending
    /\ [][C20InputKeepsText /\ C20FiringTakesLatest]_vars

\* After three input events the one timeout left has run: searchText is the
\* field's value, "bb", which matches one of the two records, and it is not
\* what the search was when the page was mounted with both records listed.
C20Witness ==
    /\ ntimers = 3 /\ timer = Some(3) /\ pending = {}
    /\ inputValue = <<"b", "b">> /\ searchText = inputValue
    /\ Len(orderedComics) = 1

====
